---- MODULE Spec2Model ----
(***************************************************************************)
(* A model of the grizzly Series column: chunked parallel filtering,       *)
(* string <-> float conversion, text replacement, numeric reduction and    *)
(* the percentile of a sorted slice.                                       *)
(*                                                                         *)
(* Indexes are 0-based as in the Go code; TLA+ sequences are 1-based, so   *)
(* element j of a slice s is s[j + 1] (operator At).                       *)
(* A float64 held by a Series is written as the rational <<n, d>> (d > 0,  *)
(* lowest terms) of its value; the reductions compute on float64 values    *)
(* [neg, m, e] with the rounding of float64 arithmetic.  A Go string is a  *)
(* sequence of one-character strings.                                      *)
(***************************************************************************)
EXTENDS Integers, Sequences, FiniteSets, TLC

VARIABLES
    series,          \* the Series: [DataType, Float, String]
    numCPU,          \* runtime.NumCPU()
    op,              \* the method being executed, or the last one executed
    pc,              \* "idle" | "running" | "returned" | "panicked"
    calls,           \* number of method calls made so far
    entry,           \* the Series at the entry of the current / last call
    prev,            \* the call before it: [op, entry]
    cond,            \* filter: the condition argument (set of accepted values)
    wdone,           \* per goroutine: wg.Done() has run
    wj,              \* per goroutine: loop variable j
    wexit,           \* per goroutine: its body has ended, the deferred wg.Done() is pending
    ch,              \* filter: the buffered channel ch
    closed,          \* filter: close(ch) has run
    filteredIndexes, \* filter: the collector's filteredIndexes
    floatArray,      \* ConvertStringToFloat: floatArray
    stringArray,     \* ConvertFloatToString: stringArray
    firstErr,        \* ConvertStringToFloat: firstErr
    old,             \* Replace, ReplaceWholeWord: the argument old
    new,             \* Replace, ReplaceWholeWord: the argument new
    nums,            \* arrayCalculatePercentile: the argument nums
    percentile,      \* arrayCalculatePercentile: the argument percentile
    seriesWrites,    \* number of assignments made to the Series by the call
    visits,          \* per index: how many times a goroutine visited it
    fn,              \* reductions: the array function that is executing
    chain,           \* reductions: the partial results not yet received from the channel
    result,          \* reductions: the accumulator of the range loop
    mean,            \* arrayVariance: mean
    ret              \* the values the last call returned

vars == <<series, numCPU, op, pc, calls, entry, prev, cond, wdone, wj, wexit, ch, closed,
          filteredIndexes, floatArray, stringArray, firstErr, old, new,
          nums, percentile, seriesWrites, visits, fn, chain, result, mean, ret>>

---------------------------------------------------------------------------
(* Bounds of the model *)

MaxLen == 3
MaxCPU == 3
MaxCalls == 2
MaxWorkers == 8
MaxNums == 4

---------------------------------------------------------------------------
(* Slices *)

At(s, j) == s[j + 1]

Indexes(s) == 0 .. (Len(s) - 1)

Min2(a, b) == IF a < b THEN a ELSE b

\* make([]T, n): n zero values
Make(n, zero) == [k \in 1 .. n |-> zero]

SeqsUpTo(S, n) == UNION {[1 .. k -> S] : k \in 0 .. n}

---------------------------------------------------------------------------
(* float64 values as exact rationals *)

Abs(n) == IF n < 0 THEN -n ELSE n

RECURSIVE GCD(_, _)
GCD(a, b) == IF b = 0 THEN a ELSE GCD(b, a % b)

Norm(n, d) ==
    LET g == GCD(Abs(n), d)
    IN  <<n \div g, d \div g>>

Rat(n) == <<n, 1>>

RAdd(a, b) == Norm(a[1] * b[2] + b[1] * a[2], a[2] * b[2])
RSub(a, b) == Norm(a[1] * b[2] - b[1] * a[2], a[2] * b[2])
RMul(a, b) == Norm(a[1] * b[1], a[2] * b[2])
RLess(a, b) == a[1] * b[2] < b[1] * a[2]

RECURSIVE Pow10(_)
Pow10(k) == IF k = 0 THEN 1 ELSE 10 * Pow10(k - 1)

---------------------------------------------------------------------------
(* Natural numbers of any size, for the 53-bit significands of float64: a  *)
(* sequence of limbs below Limb, the least significant first, without a    *)
(* zero as its last limb; <<>> is 0.                                       *)

LimbBits == 14
Limb == 2^LimbBits

RECURSIVE BNat(_)
\* the natural number n
BNat(n) == IF n = 0 THEN <<>> ELSE <<n % Limb>> \o BNat(n \div Limb)

RECURSIVE BTrim(_)
BTrim(a) ==
    IF a = <<>> THEN <<>>
    ELSE IF a[Len(a)] = 0 THEN BTrim(SubSeq(a, 1, Len(a) - 1))
    ELSE a

Low(a) == IF a = <<>> THEN 0 ELSE Head(a)
Rest(a) == IF a = <<>> THEN <<>> ELSE Tail(a)

RECURSIVE BAddC(_, _, _)
\* a + b + c
BAddC(a, b, c) ==
    IF a = <<>> /\ b = <<>> THEN (IF c = 0 THEN <<>> ELSE <<c>>)
    ELSE LET x == Low(a) + Low(b) + c
         IN  <<x % Limb>> \o BAddC(Rest(a), Rest(b), x \div Limb)

BAdd(a, b) == BAddC(a, b, 0)

RECURSIVE BSubC(_, _, _)
\* a - b - c, for a >= b + c
BSubC(a, b, c) ==
    IF a = <<>> THEN <<>>
    ELSE LET x == Head(a) - Low(b) - c
         IN  IF x < 0 THEN <<x + Limb>> \o BSubC(Tail(a), Rest(b), 1)
             ELSE <<x>> \o BSubC(Tail(a), Rest(b), 0)

BSub(a, b) == BTrim(BSubC(a, b, 0))

RECURSIVE BLess(_, _)
BLess(a, b) ==
    IF Len(a) # Len(b) THEN Len(a) < Len(b)
    ELSE IF a = <<>> THEN FALSE
    ELSE IF a[Len(a)] # b[Len(b)] THEN a[Len(a)] < b[Len(b)]
    ELSE BLess(SubSeq(a, 1, Len(a) - 1), SubSeq(b, 1, Len(b) - 1))

RECURSIVE BMulSmall(_, _, _)
\* a * k + c, for k <= Limb
BMulSmall(a, k, c) ==
    IF a = <<>> THEN (IF c = 0 THEN <<>> ELSE <<c % Limb>> \o BMulSmall(<<>>, k, c \div Limb))
    ELSE LET x == Head(a) * k + c
         IN  <<x % Limb>> \o BMulSmall(Tail(a), k, x \div Limb)

RECURSIVE BMul(_, _)
BMul(a, b) ==
    IF a = <<>> \/ b = <<>> THEN <<>>
    ELSE BTrim(BAdd(BMulSmall(a, Head(b), 0), <<0>> \o BMul(a, Tail(b))))

RECURSIVE BDivRem(_, _)
\* quotient and remainder of a by k, for 0 < k <= Limb
BDivRem(a, k) ==
    IF a = <<>> THEN [q |-> <<>>, r |-> 0]
    ELSE LET hi == BDivRem(Tail(a), k)
             x == hi.r * Limb + Head(a)
         IN  [q |-> <<x \div k>> \o hi.q, r |-> x % k]

\* a * 2^s
BShl(a, s) ==
    IF a = <<>> THEN <<>>
    ELSE Make(s \div LimbBits, 0) \o BMulSmall(a, 2^(s % LimbBits), 0)

\* a \div 2^s
BShr(a, s) ==
    IF s \div LimbBits >= Len(a) THEN <<>>
    ELSE BTrim(BDivRem(SubSeq(a, (s \div LimbBits) + 1, Len(a)), 2^(s % LimbBits)).q)

RECURSIVE SmallBitLen(_)
SmallBitLen(x) == IF x = 0 THEN 0 ELSE 1 + SmallBitLen(x \div 2)

\* the number of bits of a
BitLen(a) == IF a = <<>> THEN 0 ELSE LimbBits * (Len(a) - 1) + SmallBitLen(a[Len(a)])

RECURSIVE SmallTrailingZeros(_)
SmallTrailingZeros(x) == IF x % 2 = 1 THEN 0 ELSE 1 + SmallTrailingZeros(x \div 2)

RECURSIVE TrailingZeros(_)
\* the number of zero bits at the low end of a, for a > 0
TrailingZeros(a) ==
    IF Head(a) = 0 THEN LimbBits + TrailingZeros(Tail(a)) ELSE SmallTrailingZeros(Head(a))

---------------------------------------------------------------------------
(* float64 arithmetic with its rounding.  A float64 is [neg, m, e]: the    *)
(* value (-1)^neg * m * 2^e with m odd, or m = <<>> for 0.  Every result   *)
(* is rounded to 53 significant bits, to nearest, ties to even, as the     *)
(* amd64 build does (no fused multiply-add).  Infinities, NaN, -0 and      *)
(* subnormal numbers lie outside the values of the model.                  *)

MantissaBits == 53

Zero64 == [neg |-> FALSE, m |-> <<>>, e |-> 0]

\* the representation of (-1)^neg * m * 2^e
Canon(neg, m, e) ==
    IF m = <<>> THEN Zero64
    ELSE LET tz == TrailingZeros(m)
         IN  [neg |-> neg, m |-> BShr(m, tz), e |-> e + tz]

\* the float64 nearest to (-1)^neg * (m + f) * 2^e, where 0 < f < 1 when
\* sticky and f = 0 otherwise; sticky only with more than MantissaBits + 1 bits
RoundNearestEven(neg, m, e, sticky) ==
    IF BitLen(m) <= MantissaBits THEN Canon(neg, m, e)
    ELSE LET shift == BitLen(m) - MantissaBits
             q == BShr(m, shift)
             r == BSub(m, BShl(q, shift))
             half == BShl(<<1>>, shift - 1)
             up == \/ BLess(half, r)
                   \/ r = half /\ (sticky \/ Head(q) % 2 = 1)
         IN  Canon(neg, IF up THEN BAdd(q, <<1>>) ELSE q, e + shift)

\* float64(n) for an int n of the model
FInt(n) == Canon(n < 0, BNat(Abs(n)), 0)

FNeg(a) == IF a.m = <<>> THEN a ELSE [a EXCEPT !.neg = ~a.neg]

\* a + b
FAdd(a, b) ==
    IF a.m = <<>> THEN b
    ELSE IF b.m = <<>> THEN a
    ELSE LET e == Min2(a.e, b.e)
             ma == BShl(a.m, a.e - e)
             mb == BShl(b.m, b.e - e)
         IN  IF a.neg = b.neg THEN RoundNearestEven(a.neg, BAdd(ma, mb), e, FALSE)
             ELSE IF ma = mb THEN Zero64
             ELSE IF BLess(mb, ma) THEN RoundNearestEven(a.neg, BSub(ma, mb), e, FALSE)
             ELSE RoundNearestEven(b.neg, BSub(mb, ma), e, FALSE)

\* a - b
FSub(a, b) == FAdd(a, FNeg(b))

\* a * b
FMul(a, b) ==
    IF a.m = <<>> \/ b.m = <<>> THEN Zero64
    ELSE RoundNearestEven(a.neg # b.neg, BMul(a.m, b.m), a.e + b.e, FALSE)

\* a / float64(n), for 0 < n < Limb: the quotient is taken to 5 limbs below
\* the significand, what is left of the division is the sticky bit
FDivInt(a, n) ==
    IF a.m = <<>> THEN Zero64
    ELSE LET k == 5 * LimbBits
             d == BDivRem(BShl(a.m, k), n)
         IN  RoundNearestEven(a.neg, BTrim(d.q), a.e - k, d.r # 0)

\* |a| < |b|
MagnitudeLess(a, b) ==
    IF b.m = <<>> THEN FALSE
    ELSE IF a.m = <<>> THEN TRUE
    ELSE IF BitLen(a.m) + a.e # BitLen(b.m) + b.e THEN BitLen(a.m) + a.e < BitLen(b.m) + b.e
    ELSE BLess(BShl(a.m, a.e - Min2(a.e, b.e)), BShl(b.m, b.e - Min2(a.e, b.e)))

\* a < b
FLess(a, b) ==
    IF a.neg # b.neg THEN a.neg
    ELSE IF a.neg THEN MagnitudeLess(b, a)
    ELSE MagnitudeLess(a, b)

\* the float64 of the value the rational r stands for
Float64(r) == IF r[2] = 1 THEN FInt(r[1]) ELSE FDivInt(FInt(r[1]), r[2])

---------------------------------------------------------------------------
(* strconv.ParseFloat and strconv.FormatFloat on the model's alphabet:     *)
(* decimal digits, the point, and letters that occur in no float syntax.   *)

DigitChars == <<"0", "1", "2", "3", "4", "5", "6", "7", "8", "9">>

Digits == {DigitChars[k] : k \in 1 .. 10}

DigitVal(c) == (CHOOSE k \in 1 .. 10 : DigitChars[k] = c) - 1

\* ParseFloat succeeds on: digits with at most one point and at least one digit
ParseOK(s) ==
    /\ \A k \in 1 .. Len(s) : s[k] \in Digits \cup {"."}
    /\ Cardinality({k \in 1 .. Len(s) : s[k] = "."}) <= 1
    /\ \E k \in 1 .. Len(s) : s[k] \in Digits

RECURSIVE Mantissa(_, _)
\* the integer written by the digits of s, the point skipped; acc is the value so far
Mantissa(s, acc) ==
    IF s = <<>> THEN acc
    ELSE IF Head(s) = "." THEN Mantissa(Tail(s), acc)
    ELSE Mantissa(Tail(s), 10 * acc + DigitVal(Head(s)))

\* number of digits after the point
FracLen(s) ==
    IF \E k \in 1 .. Len(s) : s[k] = "."
    THEN Len(s) - (CHOOSE k \in 1 .. Len(s) : s[k] = ".")
    ELSE 0

\* val of  val, err := strconv.ParseFloat(s, 64)  when err == nil
ParseFloat(s) == Norm(Mantissa(s, 0), Pow10(FracLen(s)))

RECURSIVE NatText(_)
NatText(n) ==
    IF n < 10 THEN <<DigitChars[n + 1]>>
    ELSE NatText(n \div 10) \o <<DigitChars[(n % 10) + 1]>>

RECURSIVE FracText(_, _)
\* the decimal digits of rem / d (rem < d), none when rem = 0
FracText(rem, d) ==
    IF rem = 0 THEN <<>>
    ELSE <<DigitChars[((rem * 10) \div d) + 1]>> \o FracText((rem * 10) % d, d)

\* strconv.FormatFloat(v, 'f', 1, 64) for the values of the model: one digit
\* after the point, whatever the value
FormatFloatFixed(v) ==
    LET n == Abs(v[1])
        d == v[2]
        whole == NatText(n \div d)
        frac == FracText(n % d, d)
    IN  (IF v[1] < 0 THEN <<"-">> ELSE <<>>)
        \o whole
        \o <<".">>
        \o (IF frac = <<>> THEN <<"0">> ELSE <<Head(frac)>>)

\* strconv.FormatFloat(v, 'f', -1, 64): the shortest decimal text of v
FormatFloat(v) ==
    LET n == Abs(v[1])
        d == v[2]
        whole == NatText(n \div d)
        frac == FracText(n % d, d)
    IN  (IF v[1] < 0 THEN <<"-">> ELSE <<>>)
        \o whole
        \o (IF frac = <<>> THEN <<>> ELSE <<".">> \o frac)

---------------------------------------------------------------------------
(* The values Series of the model hold *)

FloatVals == {Rat(1), Rat(2)}

TextVals == { <<"1", ".", "5">>, <<"2", ".", "0">>, <<"3">>, <<"x">>, <<"y">> }

FilterTextVals == { <<"3">>, <<"x">> }

---------------------------------------------------------------------------
(* The Series type *)

Series(t, f, s) == [DataType |-> t, Float |-> f, String |-> s]

\* Length is the length of the active sequence
GetLength(sr) == IF sr.DataType = "float" THEN Len(sr.Float) ELSE Len(sr.String)

\* the sequence the tag selects
Active(sr) == IF sr.DataType = "float" THEN sr.Float ELSE sr.String

---------------------------------------------------------------------------
(* Chunks *)

ChunkSizeFloor(length, n) == length \div n

\* chunkSize := (length + numGoroutines - 1) / numGoroutines
ChunkSize(length, n) == (length + n - 1) \div n

\* start := i * chunkSize
ChunkStart(i, length, n) == i * ChunkSize(length, n)

\* end := start + chunkSize; if end > length { end = length }
ChunkEnd(i, length, n) == Min2(ChunkStart(i, length, n) + ChunkSize(length, n), length)

\* the j of  for j := start; j < end; j++
ChunkIndexes(i, length, n) ==
    {j \in 0 .. (length - 1) : ChunkStart(i, length, n) <= j /\ j < ChunkEnd(i, length, n)}

Goroutines == 0 .. (numCPU - 1)

---------------------------------------------------------------------------
(* The state between calls *)

\* the nil error
NoErr == [Num |-> <<>>, at |-> -1]

Untouched ==
    /\ cond = {}
    /\ wdone = <<>>
    /\ wj = <<>>
    /\ wexit = <<>>
    /\ ch = <<>>
    /\ closed = FALSE
    /\ filteredIndexes = <<>>
    /\ floatArray = <<>>
    /\ stringArray = <<>>
    /\ firstErr = NoErr
    /\ old = <<>>
    /\ new = <<>>
    /\ seriesWrites = 0
    /\ visits = <<>>
    /\ fn = "none"
    /\ chain = <<>>
    /\ result = Zero64
    /\ mean = Zero64
    /\ ret = <<>>

InitCommon ==
    /\ numCPU \in 1 .. MaxCPU
    /\ op = "none"
    /\ pc = "idle"
    /\ calls = 0
    /\ entry = series
    /\ prev = [op |-> "none", entry |-> series]
    /\ Untouched
    /\ nums = <<>>
    /\ percentile = 0

FloatSeries == {Series("float", f, <<>>) : f \in SeqsUpTo(FloatVals, MaxLen)}

CanCall == pc \in {"idle", "returned"} /\ calls < MaxCalls

\* the call of method name begins and goroutines are about to be started
Enter(name) ==
    /\ op' = name
    /\ pc' = "running"
    /\ calls' = calls + 1
    /\ entry' = series
    /\ prev' = [op |-> op, entry |-> entry]
    /\ seriesWrites' = 0
    /\ visits' = [k \in 1 .. GetLength(series) |-> 0]
    /\ wexit' = [k \in 1 .. numCPU |-> FALSE]

\* the call of method name runs from entry to return in one step and starts
\* no goroutine
Whole(name) ==
    /\ op' = name
    /\ pc' = "returned"
    /\ calls' = calls + 1
    /\ entry' = series
    /\ prev' = [op |-> op, entry |-> entry]
    /\ seriesWrites' = 0
    /\ visits' = <<>>
    /\ wexit' = wexit

\* wg.Wait() returns although only the first goroutine has run wg.Done()
WgWaitFirst == At(wdone, 0)

\* wg.Wait() can return: every goroutine started by the call has run wg.Done()
WgWait == \A i \in Goroutines : At(wdone, i)

\* one more visit of every index of the set js
Visit(js) == [k \in DOMAIN visits |-> IF (k - 1) \in js THEN visits[k] + 1 ELSE visits[k]]

---------------------------------------------------------------------------
(* Series.RemoveIndexes, FilterFloatSeries, FilterStringSeries *)

RemoveIndexesReversed(sr, indexes) ==
    IF sr.DataType = "float"
    THEN [sr EXCEPT !.Float = [k \in 1 .. Len(indexes) |-> At(sr.Float, indexes[Len(indexes) + 1 - k])]]
    ELSE [sr EXCEPT !.String = [k \in 1 .. Len(indexes) |-> At(sr.String, indexes[Len(indexes) + 1 - k])]]

RemoveIndexes(sr, indexes) ==
    IF sr.DataType = "float"
    THEN [sr EXCEPT !.Float = [k \in 1 .. Len(indexes) |-> At(sr.Float, indexes[k])]]
    ELSE [sr EXCEPT !.String = [k \in 1 .. Len(indexes) |-> At(sr.String, indexes[k])]]

RECURSIVE LocalFiltered(_, _, _, _)
\* localFiltered after  for j := start; j < end; j++ { if condition(data[j]) {append j} }
LocalFiltered(data, c, j, end) ==
    IF j >= end THEN <<>>
    ELSE (IF At(data, j) \in c THEN <<j>> ELSE <<>>) \o LocalFiltered(data, c, j + 1, end)

filterVars == <<cond, ch, closed, filteredIndexes>>
convVars == <<floatArray, stringArray, firstErr>>
replaceVars == <<old, new>>
percentileVars == <<nums, percentile>>
reduceVars == <<fn, chain, result, mean>>

FilterOps == {"FilterFloatSeries", "FilterStringSeries"}

\* the method's entry: the type check, the length check, the goroutines' start
FilterEnter(name, type, c) ==
    /\ CanCall
    /\ IF series.DataType # type
       THEN /\ op' = name
            /\ pc' = "panicked"
            /\ calls' = calls + 1
            /\ entry' = series
            /\ prev' = [op |-> op, entry |-> entry]
            /\ UNCHANGED <<series, filterVars, wdone, wj, wexit, seriesWrites, visits, ret>>
       ELSE IF GetLength(series) = 0
       THEN /\ Whole(name)
            /\ ret' = <<>>
            /\ UNCHANGED <<series, filterVars, wdone, wj>>
       ELSE /\ Enter(name)
            /\ cond' = c
            /\ wdone' = [k \in 1 .. numCPU |-> FALSE]
            /\ wj' = [k \in 1 .. numCPU |-> ChunkStart(k - 1, GetLength(series), numCPU)]
            /\ ch' = <<>>
            /\ closed' = FALSE
            /\ filteredIndexes' = <<>>
            /\ UNCHANGED <<series, ret>>
    /\ UNCHANGED <<replaceVars, reduceVars, percentileVars, numCPU, convVars>>

FilterFloatSeries == \E c \in SUBSET FloatVals : FilterEnter("FilterFloatSeries", "float", c)

FilterStringSeries == \E c \in SUBSET FilterTextVals : FilterEnter("FilterStringSeries", "string", c)

\* goroutine i: scans its chunk and sends localFiltered on ch (the send waits
\* while ch holds numGoroutines lists); in a later step it runs the deferred
\* wg.Done()
FilterGoroutine(i) ==
    /\ pc = "running" /\ op \in FilterOps
    /\ ~At(wdone, i)
    /\ IF At(wexit, i)
       THEN /\ wdone' = [wdone EXCEPT ![i + 1] = TRUE]
            /\ UNCHANGED <<ch, visits, wj, wexit>>
       ELSE /\ Len(ch) < numCPU
            /\ LET length == GetLength(series)
                   end == ChunkEnd(i, length, numCPU)
               IN  /\ ch' = Append(ch, LocalFiltered(Active(series), cond, At(wj, i), end))
                   /\ visits' = Visit(ChunkIndexes(i, length, numCPU))
                   /\ wj' = [wj EXCEPT ![i + 1] = IF @ < end THEN end ELSE @]
            /\ wexit' = [wexit EXCEPT ![i + 1] = TRUE]
            /\ UNCHANGED wdone
    /\ UNCHANGED <<replaceVars, reduceVars, percentileVars, series, numCPU, op, pc, calls, entry, prev, cond, closed,
                   filteredIndexes, convVars, seriesWrites, ret>>

\* go func() { wg.Wait() }(): the closing goroutine without its close(ch)
FilterCloseForgotten ==
    /\ pc = "running" /\ op \in FilterOps
    /\ ~closed
    /\ WgWait
    /\ UNCHANGED vars

\* go func() { wg.Wait(); close(ch) }()
FilterClose ==
    /\ pc = "running" /\ op \in FilterOps
    /\ ~closed
    /\ WgWait
    /\ closed' = TRUE
    /\ UNCHANGED <<replaceVars, reduceVars, percentileVars, wexit, series, numCPU, op, pc, calls, entry, prev, cond, wdone, wj, ch,
                   filteredIndexes, convVars, seriesWrites, visits, ret>>

\* one iteration of  for indexes := range ch { filteredIndexes = append(...) }
FilterCollect ==
    /\ pc = "running" /\ op \in FilterOps
    /\ ch # <<>>
    /\ filteredIndexes' = filteredIndexes \o Head(ch)
    /\ ch' = Tail(ch)
    /\ UNCHANGED <<replaceVars, reduceVars, percentileVars, wexit, series, numCPU, op, pc, calls, entry, prev, cond, wdone, wj, closed,
                   convVars, seriesWrites, visits, ret>>

\* the range loop ends on the closed, drained channel; RemoveIndexes; return
FilterReturn ==
    /\ pc = "running" /\ op \in FilterOps
    /\ closed /\ ch = <<>>
    /\ series' = RemoveIndexes(series, filteredIndexes)
    /\ seriesWrites' = seriesWrites + 1
    /\ ret' = filteredIndexes
    /\ pc' = "returned"
    /\ UNCHANGED <<replaceVars, reduceVars, percentileVars, wexit, numCPU, op, calls, entry, prev, cond, wdone, wj, ch, closed,
                   filteredIndexes, convVars, visits>>

\* the index lists a caller can hand to RemoveIndexes: repeats, any order,
\* and indexes outside every Series (-1 and MaxLen)
IndexLists == SeqsUpTo(-1 .. MaxLen, MaxLen)

\* a call of the public method RemoveIndexes by the caller of the library:
\* series.Float[idx] (series.String[idx]) panics on the first index outside
\* the sequence, before the Series is assigned
SeriesRemoveIndexes ==
    /\ CanCall
    /\ \E indexes \in IndexLists :
           /\ op' = "RemoveIndexes"
           /\ calls' = calls + 1
           /\ entry' = series
           /\ prev' = [op |-> op, entry |-> entry]
           /\ visits' = <<>>
           /\ wexit' = wexit
           /\ filteredIndexes' = indexes
           /\ ret' = <<>>
           /\ IF \A k \in DOMAIN indexes : indexes[k] \in 0 .. (Len(Active(series)) - 1)
              THEN /\ series' = RemoveIndexes(series, indexes)
                   /\ seriesWrites' = 1
                   /\ pc' = "returned"
              ELSE /\ UNCHANGED series
                   /\ seriesWrites' = 0
                   /\ pc' = "panicked"
    /\ UNCHANGED <<replaceVars, reduceVars, percentileVars, numCPU, convVars, cond, ch, closed, wdone, wj>>

InitFilter ==
    /\ series \in FloatSeries
                  \cup {Series("string", <<>>, s) : s \in SeqsUpTo(FilterTextVals, MaxLen)}
    /\ InitCommon

\* one call of a filter on the initial Series
NextFilter ==
    \/ pc = "idle" /\ FilterFloatSeries
    \/ pc = "idle" /\ FilterStringSeries
    \/ pc = "idle" /\ SeriesRemoveIndexes
    \/ \E i \in Goroutines : FilterGoroutine(i)
    \/ FilterClose
    \/ FilterCollect
    \/ FilterReturn

SpecFilter == InitFilter /\ [][NextFilter]_vars

---------------------------------------------------------------------------
(* ConvertStringToFloat, ConvertFloatToString *)

ConvFloatVals == {<<3, 2>>, Rat(2)}

\* the *strconv.NumError of a failed ParseFloat: Num is the text that failed;
\* at is the index of the element whose parse produced it
NumError(j, s) == [Num |-> s, at |-> j]

\* what the unsynchronised read  firstErr != nil  of line 167 can yield: a
\* goroutine may still see nil after another one has assigned firstErr
SeenErr == IF firstErr = NoErr THEN {FALSE} ELSE {TRUE, FALSE}

\* once.Do(func() { firstErr = err }): only the first call assigns
OnceDo(err) == IF firstErr = NoErr THEN err ELSE firstErr

\* the assignments of lines 189-190 (DataType is not assigned)
InstallFloatEager(sr, fa, err) == [sr EXCEPT !.Float = fa, !.String = <<>>]

InstallFloat(sr, fa, err) ==
    IF err # NoErr THEN sr ELSE [sr EXCEPT !.Float = fa, !.String = <<>>]

\* the assignments of lines 241-242 (DataType is not assigned)
InstallString(sr, sa) == [sr EXCEPT !.String = sa, !.Float = <<>>]

\* the method's entry: the type check, make(floatArray), the goroutines' start
ConvertStringToFloat ==
    /\ CanCall
    /\ IF series.DataType = "float"
       THEN /\ Whole("ConvertStringToFloat")
            /\ ret' = <<>>
            /\ UNCHANGED <<series, wdone, wj, convVars>>
       ELSE /\ Enter("ConvertStringToFloat")
            /\ floatArray' = Make(Len(series.String), Rat(0))
            /\ firstErr' = NoErr
            /\ wdone' = [k \in 1 .. numCPU |-> FALSE]
            /\ wj' = [k \in 1 .. numCPU |-> ChunkStart(k - 1, Len(series.String), numCPU)]
            /\ visits' = [k \in 1 .. Len(series.String) |-> 0]
            /\ UNCHANGED <<series, stringArray, ret>>
    /\ UNCHANGED <<replaceVars, reduceVars, percentileVars, numCPU, filterVars>>

\* goroutine i: one iteration of its loop, or the loop's end; after a failed
\* parse once.Do is one step and the return with its deferred wg.Done() the next
StringToFloatGoroutine(i) ==
    /\ pc = "running" /\ op = "ConvertStringToFloat"
    /\ ~At(wdone, i)
    /\ LET j == At(wj, i)
           end == ChunkEnd(i, Len(series.String), numCPU)
       IN  IF At(wexit, i) \/ j >= end
           THEN /\ wdone' = [wdone EXCEPT ![i + 1] = TRUE]
                /\ UNCHANGED <<wj, wexit, floatArray, firstErr, visits>>
           ELSE \E seen \in SeenErr :
                IF seen
                THEN /\ wdone' = [wdone EXCEPT ![i + 1] = TRUE]
                     /\ UNCHANGED <<wj, wexit, floatArray, firstErr, visits>>
                ELSE IF ~ParseOK(At(series.String, j))
                THEN /\ firstErr' = OnceDo(NumError(j, At(series.String, j)))
                     /\ wexit' = [wexit EXCEPT ![i + 1] = TRUE]
                     /\ visits' = Visit({j})
                     /\ UNCHANGED <<wj, wdone, floatArray>>
                ELSE /\ floatArray' = [floatArray EXCEPT ![j + 1] = ParseFloat(At(series.String, j))]
                     /\ wj' = [wj EXCEPT ![i + 1] = j + 1]
                     /\ visits' = Visit({j})
                     /\ UNCHANGED <<wdone, wexit, firstErr>>
    /\ UNCHANGED <<replaceVars, reduceVars, percentileVars, series, numCPU, op, pc, calls, entry, prev, filterVars, stringArray,
                   seriesWrites, ret>>

\* wg.Wait() has passed: the error is printed, or the Series is assigned
StringToFloatReturn ==
    /\ pc = "running" /\ op = "ConvertStringToFloat"
    /\ WgWait
    /\ series' = InstallFloat(series, floatArray, firstErr)
    \* lines 189 and 190 are two assignments
    /\ seriesWrites' = IF firstErr # NoErr THEN seriesWrites ELSE seriesWrites + 2
    /\ ret' = <<>>
    /\ pc' = "returned"
    /\ UNCHANGED <<replaceVars, reduceVars, percentileVars, wexit, numCPU, op, calls, entry, prev, filterVars, wdone, wj, convVars, visits>>

ConvertFloatToString ==
    /\ CanCall
    /\ IF series.DataType = "string"
       THEN /\ Whole("ConvertFloatToString")
            /\ ret' = <<>>
            /\ UNCHANGED <<series, wdone, wj, convVars>>
       ELSE /\ Enter("ConvertFloatToString")
            /\ stringArray' = Make(Len(series.Float), <<>>)
            /\ firstErr' = NoErr
            /\ wdone' = [k \in 1 .. numCPU |-> FALSE]
            /\ wj' = [k \in 1 .. numCPU |-> ChunkStart(k - 1, Len(series.Float), numCPU)]
            /\ visits' = [k \in 1 .. Len(series.Float) |-> 0]
            /\ UNCHANGED <<series, floatArray, ret>>
    /\ UNCHANGED <<replaceVars, reduceVars, percentileVars, numCPU, filterVars>>

\* goroutine i: one iteration of its loop (firstErr is never assigned), or its end
FloatToStringGoroutine(i) ==
    /\ pc = "running" /\ op = "ConvertFloatToString"
    /\ ~At(wdone, i)
    /\ LET j == At(wj, i)
           end == ChunkEnd(i, Len(series.Float), numCPU)
       IN  IF j >= end
           THEN /\ wdone' = [wdone EXCEPT ![i + 1] = TRUE]
                /\ UNCHANGED <<wj, stringArray, visits>>
           ELSE /\ stringArray' = [stringArray EXCEPT ![j + 1] = FormatFloat(At(series.Float, j))]
                /\ wj' = [wj EXCEPT ![i + 1] = j + 1]
                /\ visits' = Visit({j})
                /\ UNCHANGED wdone
    /\ UNCHANGED <<replaceVars, reduceVars, percentileVars, wexit, series, numCPU, op, pc, calls, entry, prev, filterVars, floatArray,
                   firstErr, seriesWrites, ret>>

FloatToStringReturn ==
    /\ pc = "running" /\ op = "ConvertFloatToString"
    /\ WgWait
    /\ series' = InstallString(series, stringArray)
    \* lines 241 and 242 are two assignments
    /\ seriesWrites' = seriesWrites + 2
    /\ ret' = <<>>
    /\ pc' = "returned"
    /\ UNCHANGED <<replaceVars, reduceVars, percentileVars, wexit, numCPU, op, calls, entry, prev, filterVars, wdone, wj, convVars, visits>>

InitConvert ==
    /\ series \in {Series("string", <<>>, s) : s \in SeqsUpTo(TextVals, MaxLen)}
                  \cup {Series("float", f, <<>>) : f \in SeqsUpTo(ConvFloatVals, MaxLen)}
    /\ InitCommon

NextConvert ==
    \/ ConvertStringToFloat
    \/ \E i \in Goroutines : StringToFloatGoroutine(i)
    \/ StringToFloatReturn
    \/ ConvertFloatToString
    \/ \E i \in Goroutines : FloatToStringGoroutine(i)
    \/ FloatToStringReturn

SpecConvert == InitConvert /\ [][NextConvert]_vars

---------------------------------------------------------------------------
(* Replace *)

RECURSIVE Interleave(_, _)
\* nw after every character of s
Interleave(s, nw) ==
    IF s = <<>> THEN <<>> ELSE <<Head(s)>> \o nw \o Interleave(Tail(s), nw)

RECURSIVE ReplaceAll(_, _, _)
\* strings.ReplaceAll(s, od, nw): the non-overlapping occurrences of od,
\* from the left; an empty od matches before every character and at the end
ReplaceAll(s, od, nw) ==
    IF od = <<>> THEN nw \o Interleave(s, nw)
    ELSE IF Len(s) < Len(od) THEN s
    ELSE IF SubSeq(s, 1, Len(od)) = od
         THEN nw \o ReplaceAll(SubSeq(s, Len(od) + 1, Len(s)), od, nw)
         ELSE <<Head(s)>> \o ReplaceAll(Tail(s), od, nw)

\* the arguments of Replace in the model
OldTexts == { <<"x">>, <<".">> }
NewTexts == { <<>>, <<"3">> }

\* the method's entry: the type and length check, the goroutines' start
Replace ==
    /\ CanCall
    /\ IF series.DataType = "float" \/ GetLength(series) = 0
       THEN /\ Whole("Replace")
            /\ ret' = <<>>
            /\ UNCHANGED <<series, wdone, wj, replaceVars, reduceVars, percentileVars>>
       ELSE /\ Enter("Replace")
            /\ old' \in OldTexts
            /\ new' \in NewTexts
            /\ wdone' = [k \in 1 .. numCPU |-> FALSE]
            /\ wj' = [k \in 1 .. numCPU |-> ChunkStart(k - 1, GetLength(series), numCPU)]
            /\ UNCHANGED <<series, ret, reduceVars, percentileVars>>
    /\ UNCHANGED <<numCPU, filterVars, convVars>>

\* goroutine i: one iteration of its loop, or the loop's end
ReplaceGoroutine(i) ==
    /\ pc = "running" /\ op = "Replace"
    /\ ~At(wdone, i)
    /\ LET j == At(wj, i)
           end == ChunkEnd(i, GetLength(entry), numCPU)
       IN  IF j >= end
           THEN /\ wdone' = [wdone EXCEPT ![i + 1] = TRUE]
                /\ UNCHANGED <<series, wj, seriesWrites, visits>>
           ELSE /\ series' = [series EXCEPT !.String[j + 1] = ReplaceAll(@, old, new)]
                /\ seriesWrites' = seriesWrites + 1
                /\ wj' = [wj EXCEPT ![i + 1] = j + 1]
                /\ visits' = Visit({j})
                /\ UNCHANGED wdone
    /\ UNCHANGED <<numCPU, op, pc, calls, entry, prev, filterVars, convVars,
                   replaceVars, reduceVars, percentileVars, wexit, ret>>

\* wg.Wait() has passed
ReplaceReturn ==
    /\ pc = "running" /\ op = "Replace"
    /\ WgWait
    /\ ret' = <<>>
    /\ pc' = "returned"
    /\ UNCHANGED <<series, numCPU, op, calls, entry, prev, filterVars, wdone, wj,
                   convVars, replaceVars, reduceVars, percentileVars, wexit, seriesWrites, visits>>

---------------------------------------------------------------------------
(* ReplaceWholeWord *)

\* the characters the regexp class \w holds, on the model's alphabet
WordChars == Digits \cup {"x", "y", "_"}

\* \b at offset k of s (0 <= k <= Len(s)): exactly one of the characters
\* before and after the offset is a word character
Boundary(s, k) ==
    LET before == k >= 1 /\ s[k] \in WordChars
        after == k < Len(s) /\ s[k + 1] \in WordChars
    IN  before # after

\* the pattern \b<QuoteMeta(od)>\b matches s at offset k: od is matched
\* character by character, no character of it is a metacharacter
MatchAt(s, k, od) ==
    /\ k + Len(od) <= Len(s)
    /\ SubSeq(s, k + 1, k + Len(od)) = od
    /\ Boundary(s, k)
    /\ Boundary(s, k + Len(od))

RECURSIVE ReplaceFrom(_, _, _, _)
\* the text ReplaceAllString builds from offset k on: the matches from the
\* left, not overlapping; an empty match is followed by the next character
ReplaceFrom(s, k, od, nw) ==
    IF k > Len(s) THEN <<>>
    ELSE IF MatchAt(s, k, od)
    THEN nw \o (IF od # <<>> THEN ReplaceFrom(s, k + Len(od), od, nw)
                ELSE IF k < Len(s) THEN <<s[k + 1]>> \o ReplaceFrom(s, k + 1, od, nw)
                ELSE <<>>)
    ELSE IF k < Len(s) THEN <<s[k + 1]>> \o ReplaceFrom(s, k + 1, od, nw)
    ELSE <<>>

\* strings.ReplaceAll in the place of the compiled pattern
ReplaceAllSubstring(s, od, nw) == ReplaceAll(s, od, nw)

\* re.ReplaceAllString(s, nw) for re = \b<QuoteMeta(od)>\b (nw holds no "$")
ReplaceAllString(s, od, nw) == ReplaceFrom(s, 0, od, nw)

\* the method's entry: the type and length check, the pattern's compilation,
\* the goroutines' start
ReplaceWholeWord ==
    /\ CanCall
    /\ IF series.DataType = "float" \/ GetLength(series) = 0
       THEN /\ Whole("ReplaceWholeWord")
            /\ ret' = <<>>
            /\ UNCHANGED <<series, wdone, wj, replaceVars>>
       ELSE /\ Enter("ReplaceWholeWord")
            /\ old' \in OldTexts
            /\ new' \in NewTexts
            /\ wdone' = [k \in 1 .. numCPU |-> FALSE]
            /\ wj' = [k \in 1 .. numCPU |-> ChunkStart(k - 1, GetLength(series), numCPU)]
            /\ UNCHANGED <<series, ret>>
    /\ UNCHANGED <<numCPU, filterVars, convVars, reduceVars, percentileVars>>

\* goroutine i: one iteration of its loop, or the loop's end
ReplaceWholeWordGoroutine(i) ==
    /\ pc = "running" /\ op = "ReplaceWholeWord"
    /\ ~At(wdone, i)
    /\ LET j == At(wj, i)
           end == ChunkEnd(i, GetLength(entry), numCPU)
       IN  IF j >= end
           THEN /\ wdone' = [wdone EXCEPT ![i + 1] = TRUE]
                /\ UNCHANGED <<series, wj, seriesWrites, visits>>
           ELSE /\ series' = [series EXCEPT !.String[j + 1] = ReplaceAllString(@, old, new)]
                /\ seriesWrites' = seriesWrites + 1
                /\ wj' = [wj EXCEPT ![i + 1] = j + 1]
                /\ visits' = Visit({j})
                /\ UNCHANGED wdone
    /\ UNCHANGED <<numCPU, op, pc, calls, entry, prev, filterVars, convVars,
                   replaceVars, reduceVars, percentileVars, wexit, ret>>

\* wg.Wait() has passed
ReplaceWholeWordReturn ==
    /\ pc = "running" /\ op = "ReplaceWholeWord"
    /\ WgWait
    /\ ret' = <<>>
    /\ pc' = "returned"
    /\ UNCHANGED <<series, numCPU, op, calls, entry, prev, filterVars, wdone, wj,
                   convVars, replaceVars, reduceVars, percentileVars, wexit, seriesWrites, visits>>

\* the texts of the Series Replace and ReplaceWholeWord are called on
ReplaceTextVals == { <<"x", "y">>, <<"x", ".", "x">>, <<".", "y">> }

InitReplace ==
    /\ series \in {Series("string", <<>>, s) : s \in SeqsUpTo(ReplaceTextVals, MaxLen)}
                  \cup {Series("float", <<Rat(1)>>, <<>>)}
    /\ InitCommon

\* one call of Replace or of ReplaceWholeWord on the initial Series
NextReplace ==
    \/ pc = "idle" /\ Replace
    \/ \E i \in Goroutines : ReplaceGoroutine(i)
    \/ ReplaceReturn
    \/ pc = "idle" /\ ReplaceWholeWord
    \/ \E i \in Goroutines : ReplaceWholeWordGoroutine(i)
    \/ ReplaceWholeWordReturn

SpecReplace == InitReplace /\ [][NextReplace]_vars

---------------------------------------------------------------------------
(* The Series under filter, conversion, Replace and ReplaceWholeWord calls *)

Init == InitFilter

\* one call of a filter, a conversion, Replace or ReplaceWholeWord on the
\* initial Series
Next ==
    \/ pc = "idle" /\ FilterFloatSeries
    \/ pc = "idle" /\ FilterStringSeries
    \/ pc = "idle" /\ SeriesRemoveIndexes
    \/ \E i \in Goroutines : FilterGoroutine(i)
    \/ FilterClose
    \/ FilterCollect
    \/ FilterReturn
    \/ pc = "idle" /\ ConvertStringToFloat
    \/ \E i \in Goroutines : StringToFloatGoroutine(i)
    \/ StringToFloatReturn
    \/ pc = "idle" /\ ConvertFloatToString
    \/ \E i \in Goroutines : FloatToStringGoroutine(i)
    \/ FloatToStringReturn
    \/ pc = "idle" /\ Replace
    \/ \E i \in Goroutines : ReplaceGoroutine(i)
    \/ ReplaceReturn
    \/ pc = "idle" /\ ReplaceWholeWord
    \/ \E i \in Goroutines : ReplaceWholeWordGoroutine(i)
    \/ ReplaceWholeWordReturn

Spec == Init /\ [][Next]_vars

---------------------------------------------------------------------------
(* One call under fair scheduling *)

\* the scheduler runs every goroutine that can take a step, the caller's
\* goroutine included; nothing obliges the caller to make a call
Fairness ==
    /\ WF_vars(\E i \in Goroutines : FilterGoroutine(i))
    /\ WF_vars(FilterClose)
    /\ WF_vars(FilterCollect)
    /\ WF_vars(FilterReturn)
    /\ WF_vars(\E i \in Goroutines : StringToFloatGoroutine(i))
    /\ WF_vars(StringToFloatReturn)
    /\ WF_vars(\E i \in Goroutines : FloatToStringGoroutine(i))
    /\ WF_vars(FloatToStringReturn)
    /\ WF_vars(\E i \in Goroutines : ReplaceGoroutine(i))
    /\ WF_vars(ReplaceReturn)
    /\ WF_vars(\E i \in Goroutines : ReplaceWholeWordGoroutine(i))
    /\ WF_vars(ReplaceWholeWordReturn)

FairSpec == Init /\ [][Next]_vars /\ Fairness

---------------------------------------------------------------------------
(* arrayFloatBase and the reductions built on it *)

ReduceVals == {<<-3, 10>>, <<1, 5>>, Rat(3)}

\* Series of eight elements: the example of the variance, and one of tenths
ReduceExamples ==
    { <<Rat(2), Rat(4), Rat(4), Rat(4), Rat(5), Rat(5), Rat(7), Rat(9)>>,
      <<<<1, 10>>, <<1, 5>>, <<3, 10>>, <<2, 5>>, <<1, 2>>, <<3, 5>>, <<7, 10>>, <<4, 5>>>> }

\* the float64 values of a []float64 of the model
Float64s(s) == [k \in 1 .. Len(s) |-> Float64(s[k])]

\* math.MaxFloat64 = (2^53 - 1) * 2^971, and math.MaxFloat64 * -1
MaxFloat64 == [neg |-> FALSE, m |-> BSub(BShl(<<1>>, MantissaBits), <<1>>), e |-> 971]
MinusMaxFloat64 == FNeg(MaxFloat64)

\* the callbacks the reductions hand to arrayFloatBase (res is the
\* callback's result, m the mean arrayVariance's callback captures)
SumStep(info, res) == FAdd(res, info)
ProductStep(info, res) == FMul(res, info)
MinStep(info, res) == IF FLess(info, res) THEN info ELSE res
MaxStep(info, res) == IF FLess(res, info) THEN info ELSE res
VarianceStep(m, info, res) ==
    LET diff == FSub(info, m)
    IN  FAdd(res, FMul(diff, diff))

Combine(kind, m, info, res) ==
    CASE kind = "sum" -> SumStep(info, res)
      [] kind = "product" -> ProductStep(info, res)
      [] kind = "min" -> MinStep(info, res)
      [] kind = "max" -> MaxStep(info, res)
      [] kind = "variance" -> VarianceStep(m, info, res)

RECURSIVE ChunkFold(_, _, _, _, _, _)
\* one worker: combine folded over data[j .. end - 1], starting from res
ChunkFold(kind, m, data, j, end, res) ==
    IF j >= end THEN res
    ELSE ChunkFold(kind, m, data, j + 1, end, Combine(kind, m, At(data, j), res))

\* the chunks that get a worker: those that start inside the data
ReduceChunks(length, n) == {i \in 0 .. (n - 1) : ChunkStart(i, length, n) < length}

\* the channel arrayFloatBase returns: the partial result of every chunk
\* that got a worker, none of them received yet
arrayFloatBase(identity, data, kind, m, n) ==
    [i \in ReduceChunks(Len(data), n) |->
        ChunkFold(kind, m, data, ChunkStart(i, Len(data), n), ChunkEnd(i, Len(data), n), identity)]

---------------------------------------------------------------------------
(* GetMax, GetMin, GetMean, GetProduct, GetSum, GetVariance *)

NilError == <<>>
ErrColumn(what) == <<"to get ", what, " select a float column">>
ErrEmpty(name) == <<name, " requires a non-empty array">>

ReduceOps == {"GetMax", "GetMin", "GetMean", "GetProduct", "GetSum", "GetVariance"}

\* the two checks every Get method makes before it reduces
GuardNoEmpty(sr, name, what, value) ==
    IF sr.DataType = "string" THEN <<Zero64, ErrColumn(what)>>
    ELSE IF GetLength(sr) = 0 THEN <<Zero64, NilError>>
    ELSE <<value, NilError>>

Guard(sr, name, what, value) ==
    IF sr.DataType = "string" THEN <<Zero64, ErrColumn(what)>>
    ELSE IF GetLength(sr) = 0 THEN <<Zero64, ErrEmpty(name)>>
    ELSE <<value, NilError>>

\* the call of array function f on data, up to its range loop: the channel
\* it gets from arrayFloatBase and its accumulator
Call(f, data) ==
    /\ fn' = f
    /\ chain' = CASE f = "arrayMax" -> arrayFloatBase(MinusMaxFloat64, data, "max", Zero64, numCPU)
                  [] f = "arrayMin" -> arrayFloatBase(MaxFloat64, data, "min", Zero64, numCPU)
                  [] f = "arrayMean" -> arrayFloatBase(Zero64, data, "sum", Zero64, numCPU)
                  [] f = "arrayProduct" -> arrayFloatBase(FInt(1), data, "product", Zero64, numCPU)
                  [] f = "arraySum" -> arrayFloatBase(Zero64, data, "sum", Zero64, numCPU)
    /\ result' = IF f = "arrayProduct" THEN FInt(1) ELSE Zero64
    /\ mean' = Zero64

\* arrayVariance(data, meanP...) up to a range loop: meanP is the sequence
\* of the variadic arguments; without one, arrayMean(data) is called
CallVariance(data, meanP) ==
    IF Len(meanP) # 0
    THEN /\ fn' = "arrayVariance"
         /\ mean' = meanP[1]
         /\ chain' = arrayFloatBase(Zero64, data, "variance", meanP[1], numCPU)
         /\ result' = Zero64
    ELSE Call("arrayMean", data)

\* a Get method's entry: the two checks and, when they pass, the call of
\* its array function on series.Float
Get(name, what, f) ==
    /\ pc = "idle"
    /\ op' = name
    /\ calls' = calls + 1
    /\ entry' = series
    /\ prev' = [op |-> op, entry |-> entry]
    /\ IF series.DataType = "string" \/ GetLength(series) = 0
       THEN /\ pc' = "returned"
            /\ ret' = Guard(series, name, what, Zero64)
            /\ UNCHANGED reduceVars
       ELSE /\ pc' = "running"
            /\ IF f = "arrayVariance"
               THEN CallVariance(Float64s(series.Float), <<>>)
               ELSE Call(f, Float64s(series.Float))
            /\ UNCHANGED ret
    /\ UNCHANGED <<replaceVars, percentileVars, series, numCPU, filterVars, wdone, wj, wexit,
                   convVars, seriesWrites, visits>>

GetMax == Get("GetMax", "max", "arrayMax")

GetMin == Get("GetMin", "min", "arrayMin")

GetMean == Get("GetMean", "mean", "arrayMean")

GetProduct == Get("GetProduct", "product", "arrayProduct")

GetSum == Get("GetSum", "sum", "arraySum")

GetVariance == Get("GetVariance", "variance", "arrayVariance")

---------------------------------------------------------------------------
(* arrayMean, arrayProduct, arraySum, arrayVariance, arrayMin, arrayMax *)

\* one iteration of  for val := range chain : the partial result of chunk i
\* is received, whichever chunk it is, and the accumulator becomes value
Receive(i, value) ==
    /\ result' = value
    /\ chain' = [k \in DOMAIN chain \ {i} |-> chain[k]]
    /\ UNCHANGED <<fn, mean, pc, ret>>

\* the array function returns value: arrayMean called by arrayVariance
\* returns to line 52, and arrayVariance goes on to its own range loop; any
\* other return is that of the Get method
Return(value) ==
    IF op = "GetVariance" /\ fn = "arrayMean"
    THEN /\ fn' = "arrayVariance"
         /\ mean' = value
         /\ chain' = arrayFloatBase(Zero64, Float64s(series.Float), "variance", value, numCPU)
         /\ result' = Zero64
         /\ UNCHANGED <<pc, ret>>
    ELSE /\ pc' = "returned"
         /\ ret' = <<value, NilError>>
         /\ UNCHANGED reduceVars

\* the channel is closed and every partial result has been received
Drained == DOMAIN chain = {}

\* no partial result has been received yet
NoneReceived == DOMAIN chain = ReduceChunks(Len(series.Float), numCPU)

ReduceUnchanged ==
    UNCHANGED <<replaceVars, percentileVars, series, numCPU, op, calls, entry, prev, filterVars,
                wdone, wj, wexit, convVars, seriesWrites, visits>>

\* result /= float64(len(data)) with the number of partial results for len(data)
arrayMeanByChunks ==
    /\ pc = "running" /\ fn = "arrayMean"
    /\ IF ~Drained
       THEN \E i \in DOMAIN chain : Receive(i, FAdd(result, chain[i]))
       ELSE Return(FDivInt(result, Cardinality(ReduceChunks(Len(series.Float), numCPU))))
    /\ ReduceUnchanged

\* for val := range chain { result += val }, then result /= float64(len(data))
arrayMean ==
    /\ pc = "running" /\ fn = "arrayMean"
    /\ IF ~Drained
       THEN \E i \in DOMAIN chain : Receive(i, FAdd(result, chain[i]))
       ELSE Return(FDivInt(result, Len(series.Float)))
    /\ ReduceUnchanged

\* for val := range chain { result *= val }
arrayProduct ==
    /\ pc = "running" /\ fn = "arrayProduct"
    /\ IF ~Drained
       THEN \E i \in DOMAIN chain : Receive(i, FMul(result, chain[i]))
       ELSE Return(result)
    /\ ReduceUnchanged

\* for val := range chain { result += val }
arraySum ==
    /\ pc = "running" /\ fn = "arraySum"
    /\ IF ~Drained
       THEN \E i \in DOMAIN chain : Receive(i, FAdd(result, chain[i]))
       ELSE Return(result)
    /\ ReduceUnchanged

\* for val := range chain { sumOfSquaredDiffs += val }, then
\* sumOfSquaredDiffs / float64(len(data))
arrayVariance ==
    /\ pc = "running" /\ fn = "arrayVariance"
    /\ IF ~Drained
       THEN \E i \in DOMAIN chain : Receive(i, FAdd(result, chain[i]))
       ELSE Return(FDivInt(result, Len(series.Float)))
    /\ ReduceUnchanged

\* minVal := <-maxChan, then for val := range maxChan { if val < minVal { minVal = val } }
arrayMin ==
    /\ pc = "running" /\ fn = "arrayMin"
    /\ IF ~Drained
       THEN \E i \in DOMAIN chain :
                Receive(i, IF NoneReceived \/ FLess(chain[i], result) THEN chain[i] ELSE result)
       ELSE Return(result)
    /\ ReduceUnchanged

\* minVal := <-maxChan, then for val := range maxChan { if val > minVal { minVal = val } }
arrayMax ==
    /\ pc = "running" /\ fn = "arrayMax"
    /\ IF ~Drained
       THEN \E i \in DOMAIN chain :
                Receive(i, IF NoneReceived \/ FLess(result, chain[i]) THEN chain[i] ELSE result)
       ELSE Return(result)
    /\ ReduceUnchanged

\* the Series of the model: every numeric one of up to MaxLen elements, two
\* of as many elements as there can be workers, and textual ones
InitReduce ==
    /\ series \in {Series("float", f, <<>>) : f \in SeqsUpTo(ReduceVals, MaxLen) \cup ReduceExamples}
                  \cup {Series("string", <<>>, s) : s \in SeqsUpTo(FilterTextVals, MaxLen)}
    /\ numCPU \in 1 .. MaxWorkers
    /\ op = "none"
    /\ pc = "idle"
    /\ calls = 0
    /\ entry = series
    /\ prev = [op |-> "none", entry |-> series]
    /\ Untouched
    /\ nums = <<>>
    /\ percentile = 0

\* one call of a Get method on the initial Series
NextReduce ==
    \/ GetMax
    \/ GetMin
    \/ GetMean
    \/ GetProduct
    \/ GetSum
    \/ GetVariance
    \/ arrayMax
    \/ arrayMin
    \/ arrayMean
    \/ arrayProduct
    \/ arraySum
    \/ arrayVariance

SpecReduce == InitReduce /\ [][NextReduce]_vars

---------------------------------------------------------------------------
(* arrayCalculatePercentile *)

\* nums[k]: the value, or the run-time panic "index out of range"
Index(ns, k) ==
    IF 0 <= k /\ k < Len(ns)
    THEN [panic |-> FALSE, value |-> At(ns, k)]
    ELSE [panic |-> TRUE, value |-> Rat(0)]

\* arrayCalculatePercentile(nums, percentile); percentile is a whole number
\* of percent in the model
arrayCalculatePercentile(ns, p) ==
    LET size == Len(ns)
        index == Norm(p * size, 100)
        lower == index[1] \div index[2]
        upper == lower + 1
        weight == RSub(index, Rat(lower))
    IN  IF upper >= size
        THEN Index(ns, lower)
        ELSE [panic |-> FALSE,
              value |-> RAdd(RMul(At(ns, lower), RSub(Rat(1), weight)),
                             RMul(At(ns, upper), weight))]

\* a call of arrayCalculatePercentile, from entry to return or panic
Percentile ==
    /\ pc = "idle"
    /\ LET r == arrayCalculatePercentile(nums, percentile)
       IN  /\ pc' = IF r.panic THEN "panicked" ELSE "returned"
           /\ ret' = IF r.panic THEN <<>> ELSE <<r.value>>
    /\ op' = "arrayCalculatePercentile"
    /\ calls' = calls + 1
    /\ entry' = series
    /\ prev' = [op |-> op, entry |-> entry]
    /\ UNCHANGED <<series, numCPU, filterVars, wdone, wj, convVars, replaceVars,
                   reduceVars, percentileVars, wexit, seriesWrites, visits>>

\* the values and the percentiles of the model
PercentileNums == {Rat(10), Rat(20), Rat(30), Rat(40)}
PercentileVals == {0, 25, 50, 90, 100}

\* nums is sorted in ascending order
Sorted(ns) == \A k \in 1 .. (Len(ns) - 1) : ~RLess(ns[k + 1], ns[k])

InitPercentile ==
    /\ series = Series("float", <<>>, <<>>)
    /\ numCPU \in 1 .. MaxCPU
    /\ op = "none"
    /\ pc = "idle"
    /\ calls = 0
    /\ entry = series
    /\ prev = [op |-> "none", entry |-> series]
    /\ Untouched
    /\ nums \in {ns \in SeqsUpTo(PercentileNums, MaxNums) : Sorted(ns)}
    /\ percentile \in PercentileVals

NextPercentile == Percentile

SpecPercentile == InitPercentile /\ [][NextPercentile]_vars

---------------------------------------------------------------------------
(* Reductions: properties *)

ReduceReturned == pc = "returned" /\ op \in ReduceOps

What(name) ==
    CASE name = "GetMax" -> "max"
      [] name = "GetMin" -> "min"
      [] name = "GetMean" -> "mean"
      [] name = "GetProduct" -> "product"
      [] name = "GetSum" -> "sum"
      [] name = "GetVariance" -> "variance"

\* C8: each of the six Get methods returns a wrong-column-type error for a
\* textual Series of any length, an empty-series error for a numeric Series
\* of length 0, and a value with a nil error for a non-empty numeric Series;
\* in all three cases the Series is the one of the entry.
C8_ReductionErrors ==
    ReduceReturned =>
        /\ series = entry
        /\ seriesWrites = 0
        /\ entry.DataType = "string" => ret[2] = ErrColumn(What(op))
        /\ (entry.DataType = "float" /\ Len(entry.Float) = 0) => ret[2] = ErrEmpty(op)
        /\ (entry.DataType = "float" /\ Len(entry.Float) > 0) => ret[2] = NilError

\* GetVariance of a numeric Series of length 0 has returned its error
C8_Witness ==
    /\ ReduceReturned /\ op = "GetVariance"
    /\ entry.DataType = "float" /\ Len(entry.Float) = 0
    /\ ret = <<Zero64, ErrEmpty("GetVariance")>>

RECURSIVE RefSum(_, _)
\* result := acc; for _, x := range s { result += x }
RefSum(s, acc) == IF s = <<>> THEN acc ELSE RefSum(Tail(s), FAdd(acc, Head(s)))

RECURSIVE RefProduct(_, _)
RefProduct(s, acc) == IF s = <<>> THEN acc ELSE RefProduct(Tail(s), FMul(acc, Head(s)))

RefMin(s) == CHOOSE x \in {s[k] : k \in 1 .. Len(s)} : \A k \in 1 .. Len(s) : ~FLess(s[k], x)

RefMax(s) == CHOOSE x \in {s[k] : k \in 1 .. Len(s)} : \A k \in 1 .. Len(s) : ~FLess(x, s[k])

RefMean(s) == FDivInt(RefSum(s, Zero64), Len(s))

RefVariance(s) ==
    FDivInt(RefSum([k \in 1 .. Len(s) |->
                       FMul(FSub(s[k], RefMean(s)), FSub(s[k], RefMean(s)))], Zero64),
            Len(s))

\* the sequential reference, one pass in index order, in float64
Reference(name, s) ==
    CASE name = "GetMax" -> RefMax(s)
      [] name = "GetMin" -> RefMin(s)
      [] name = "GetMean" -> RefMean(s)
      [] name = "GetProduct" -> RefProduct(s, FInt(1))
      [] name = "GetSum" -> RefSum(s, Zero64)
      [] name = "GetVariance" -> RefVariance(s)

VarianceExample == <<Rat(2), Rat(4), Rat(4), Rat(4), Rat(5), Rat(5), Rat(7), Rat(9)>>

\* a Get method has returned the reduction of a non-empty numeric Series
Reduced == ReduceReturned /\ entry.DataType = "float" /\ Len(entry.Float) > 0

FAbs(x) == [x EXCEPT !.neg = FALSE]

\* the magnitude the rounding errors of a reduction of s are relative to:
\* the sum of the |x| for the sum, their mean for the mean, the magnitude of
\* the reference for the product, the largest x * x for the variance
Scale(name, s) ==
    LET abs == [k \in 1 .. Len(s) |-> FAbs(s[k])]
    IN  CASE name = "GetSum" -> RefSum(abs, Zero64)
          [] name = "GetMean" -> FDivInt(RefSum(abs, Zero64), Len(s))
          [] name = "GetProduct" -> FAbs(RefProduct(s, FInt(1)))
          [] name = "GetVariance" -> FMul(RefMax(abs), RefMax(abs))

\* |v - ref| <= Len(s) * 2^-49 * scale
Within(v, ref, s, scale) ==
    ~FLess(FMul(scale, Canon(FALSE, BNat(Len(s)), -49)), FAbs(FSub(v, ref)))

\* C10 as claimed: for a non-empty numeric sequence, every worker count and
\* every order of arrival of the partial results, each of the six reductions
\* returns the value of the sequential reference (mean = sum / length,
\* variance = sum of squared deviations / length); the variance of
\* [2,4,4,4,5,5,7,9] is 4.
C10_ReductionsEqualReference ==
    Reduced =>
        /\ ret[1] = Reference(op, Float64s(entry.Float))
        /\ (op = "GetVariance" /\ entry.Float = VarianceExample) => ret[1] = FInt(4)

\* C10 as amended: for a non-empty numeric sequence, every worker count and
\* every order of arrival of the partial results, the minimum and the
\* maximum are the value of the sequential reference; the sum, the product,
\* the mean and the variance are that value when all the data is in one
\* chunk, and otherwise lie within length * 2^-49 * scale of it; the
\* variance of [2,4,4,4,5,5,7,9] is 4.
C10_ReductionsMatchReference ==
    Reduced =>
        LET data == Float64s(entry.Float)
            ref == Reference(op, data)
        IN  /\ op \in {"GetMin", "GetMax"} => ret[1] = ref
            /\ Cardinality(ReduceChunks(Len(data), numCPU)) = 1 => ret[1] = ref
            /\ op \notin {"GetMin", "GetMax"} => Within(ret[1], ref, data, Scale(op, data))
            /\ (op = "GetVariance" /\ entry.Float = VarianceExample) => ret[1] = FInt(4)

\* a variance whose eight partial results came from eight workers has
\* returned a value that is not the one of the sequential reference
C10_Witness ==
    /\ Reduced /\ op = "GetVariance"
    /\ numCPU = 8 /\ Len(entry.Float) = 8
    /\ ret[2] = NilError
    /\ ret[1] # Reference(op, Float64s(entry.Float))

---------------------------------------------------------------------------
(* Conversion: properties *)

AllParse(s) == \A k \in 1 .. Len(s) : ParseOK(s[k])

Failing(s) == {j \in Indexes(s) : ~ParseOK(At(s, j))}

Lowest(S) == CHOOSE j \in S : \A k \in S : j <= k

\* the call in progress, or the last call, is ConvertStringToFloat on a textual Series
InStringToFloat ==
    /\ op = "ConvertStringToFloat"
    /\ pc \in {"running", "returned"}
    /\ entry.DataType = "string"

\* C3: if an element of a textual Series fails to parse, ConvertStringToFloat
\* makes no assignment to the Series while its goroutines run, and when it
\* has returned the tag, the textual sequence and the numeric sequence are
\* those of the entry.
C3_FailedConversionLeavesSeries ==
    (InStringToFloat /\ ~AllParse(entry.String)) =>
        /\ seriesWrites = 0
        /\ series = entry

\* a conversion by several goroutines has returned with an error after a
\* goroutine stored a parsed value in floatArray
C3_Witness ==
    /\ InStringToFloat /\ pc = "returned"
    /\ numCPU >= 2
    /\ firstErr # NoErr
    /\ \E k \in 1 .. Len(floatArray) : floatArray[k] # Rat(0)

\* C4: if every element of a textual Series parses, then after
\* ConvertStringToFloat the tag is float, the numeric sequence holds the
\* parsed value of every element of the entry, and the textual sequence is empty.
C4_ConversionInstallsFloat ==
    (InStringToFloat /\ pc = "returned" /\ AllParse(entry.String)) =>
        /\ series.DataType = "float"
        /\ series.Float = [k \in 1 .. Len(entry.String) |-> ParseFloat(entry.String[k])]
        /\ series.String = <<>>

\* C5: ConvertStringToFloat on a textual Series whose elements all parse,
\* followed by ConvertFloatToString, leaves a textual Series of the same
\* length whose element i is the shortest text of the value of entry element i.
C5_RoundTrip ==
    (/\ pc = "returned" /\ op = "ConvertFloatToString"
     /\ prev.op = "ConvertStringToFloat"
     /\ prev.entry.DataType = "string"
     /\ AllParse(prev.entry.String)) =>
        /\ series.DataType = "string"
        /\ series.String = [k \in 1 .. Len(prev.entry.String) |->
                               FormatFloat(ParseFloat(prev.entry.String[k]))]

\* the chunks of the entry Series that hold a failing element
FailingChunks ==
    {i \in Goroutines : ChunkIndexes(i, Len(entry.String), numCPU) \cap Failing(entry.String) # {}}

\* C6: when elements of two or more chunks fail to parse, the error that
\* ConvertStringToFloat reports is that of the failing element of lowest index.
C6_LowestFailureReported ==
    (InStringToFloat /\ pc = "returned" /\ Cardinality(FailingChunks) >= 2) =>
        /\ firstErr # NoErr
        /\ firstErr.at = Lowest(Failing(entry.String))
        /\ firstErr.Num = At(entry.String, Lowest(Failing(entry.String)))

\* C7: a ConvertStringToFloat in which an element fails to parse returns an
\* error value to its caller.
C7_FailureReturned ==
    (InStringToFloat /\ pc = "returned" /\ ~AllParse(entry.String)) => ret # <<>>

---------------------------------------------------------------------------
(* Chunks: properties *)

\* the chunks of length elements for n goroutines are ascending in i and
\* pairwise disjoint, and their union is [0, length)
ChunksPartition(length, n) ==
    /\ \A i, k \in 0 .. (n - 1) :
           i < k =>
               /\ ChunkStart(i, length, n) <= ChunkStart(k, length, n)
               /\ ChunkIndexes(i, length, n) \cap ChunkIndexes(k, length, n) = {}
               /\ \A a \in ChunkIndexes(i, length, n), b \in ChunkIndexes(k, length, n) : a < b
    /\ UNION {ChunkIndexes(i, length, n) : i \in 0 .. (n - 1)} = 0 .. (length - 1)

ReplaceOps == {"Replace", "ReplaceWholeWord"}

\* the call got past its early returns and started its goroutines
StartedGoroutines ==
    CASE op \in FilterOps -> GetLength(entry) > 0
      [] op = "ConvertStringToFloat" -> entry.DataType = "string"
      [] op = "ConvertFloatToString" -> entry.DataType = "float"
      [] op \in ReplaceOps -> entry.DataType = "string" /\ GetLength(entry) > 0
      [] OTHER -> FALSE

\* the call is a ConvertStringToFloat in which an element fails to parse
FailingConversion ==
    op = "ConvertStringToFloat" /\ entry.DataType = "string" /\ ~AllParse(entry.String)

\* the indexes the goroutines of the call have visited
Visited == {j \in 0 .. (Len(visits) - 1) : At(visits, j) >= 1}

\* C9 as claimed: the index ranges handed to the goroutines of filter,
\* conversion and replacement are pairwise disjoint and ascending in i, and
\* when the call has returned the set of indexes visited is exactly [0, L),
\* each index visited exactly once.
C9_EveryIndexVisited ==
    /\ ChunksPartition(GetLength(entry), numCPU)
    /\ (pc = "returned" /\ StartedGoroutines) =>
           /\ Len(visits) = GetLength(entry)
           /\ \A k \in DOMAIN visits : visits[k] = 1

\* C9 as amended: the index ranges handed to the goroutines of filter,
\* conversion and replacement are pairwise disjoint and ascending in i and
\* cover [0, L); no index is ever visited twice; when the call has returned
\* every index of [0, L) has been visited exactly once, except in a
\* ConvertStringToFloat in which an element fails to parse: there the
\* indexes visited in each range are an initial segment of the range that
\* ends no later than the first failing element of the range, and at least
\* one failing element has been visited.
C9_ChunksPartitionIndexes ==
    /\ ChunksPartition(GetLength(entry), numCPU)
    /\ \A k \in DOMAIN visits : visits[k] <= 1
    /\ (pc = "returned" /\ StartedGoroutines) =>
           /\ Len(visits) = GetLength(entry)
           /\ IF FailingConversion
              THEN /\ \A i \in Goroutines :
                          \A j \in ChunkIndexes(i, GetLength(entry), numCPU) \cap Visited :
                              \A k \in ChunkIndexes(i, GetLength(entry), numCPU) :
                                  k < j => k \in Visited /\ ParseOK(At(entry.String, k))
                   /\ Visited \cap Failing(entry.String) # {}
              ELSE \A k \in DOMAIN visits : visits[k] = 1

\* a conversion of several goroutines in which an element fails to parse
\* has returned, and an index of [0, L) has not been visited
C9_Witness ==
    /\ pc = "returned" /\ FailingConversion
    /\ numCPU >= 2
    /\ Visited # {}
    /\ Visited # 0 .. (GetLength(entry) - 1)

---------------------------------------------------------------------------
(* Filter: properties *)

FilterReturned == pc = "returned" /\ op \in FilterOps /\ GetLength(entry) > 0

IsAscending(s) == \A k \in 1 .. (Len(s) - 1) : s[k] < s[k + 1]

\* the indexes of the entry Series whose element satisfies the condition
Matching == {j \in Indexes(Active(entry)) : At(Active(entry), j) \in cond}

\* C1: when a filter of a non-empty Series has returned, the returned index
\* list is strictly ascending, so the retained elements are in their
\* original relative order, whatever the order of the goroutines' sends.
C1_FilterKeepsOrder ==
    FilterReturned =>
        /\ IsAscending(ret)
        /\ Active(series) =
               [k \in 1 .. Cardinality(Matching) |->
                   At(Active(entry),
                      LocalFiltered(Active(entry), cond, 0, GetLength(entry))[k])]

\* C2: when a filter has returned, the returned list holds every index of
\* the entry Series whose element satisfies the condition exactly once and
\* no other index; the Series has as many elements as the list, and its
\* k-th element is the entry Series' element at the k-th returned index.
C2_FilterIndexesAndCompaction ==
    (pc = "returned" /\ op \in FilterOps) =>
        /\ {ret[k] : k \in 1 .. Len(ret)} = Matching
        /\ Len(ret) = Cardinality(Matching)
        /\ GetLength(series) = Len(ret)
        /\ \A k \in 1 .. Len(ret) : Active(series)[k] = At(Active(entry), ret[k])
        /\ series.DataType = entry.DataType

\* a filter by several goroutines has returned two or more indexes, out of
\* order, and has dropped an element
C2_Witness ==
    /\ FilterReturned
    /\ numCPU >= 2
    /\ Len(ret) >= 2
    /\ ~IsAscending(ret)
    /\ Len(ret) < GetLength(entry)

---------------------------------------------------------------------------
(* Calls and their goroutines: properties *)

\* C11: when a filter, a conversion, Replace or ReplaceWholeWord has
\* returned, every goroutine the call started has run to its wg.Done(), and
\* in a filter the closing goroutine has closed the channel and the channel
\* is drained: no goroutine of the call is left to read or write the Series
\* or a result buffer.
C11_ReturnsAfterEveryGoroutine ==
    (pc = "returned" /\ StartedGoroutines) =>
        /\ Len(wdone) = numCPU
        /\ \A i \in Goroutines : At(wdone, i)
        /\ op \in FilterOps => (closed /\ ch = <<>>)

\* a ReplaceWholeWord with several goroutines has returned after one of them
\* rewrote an element
C11_Witness ==
    /\ pc = "returned" /\ op = "ReplaceWholeWord"
    /\ numCPU >= 2
    /\ GetLength(entry) >= 2
    /\ series # entry

\* C12: between calls the Series holds its data in the sequence its tag
\* selects and the other sequence is empty.
C12_SeriesHoldsTaggedSequence ==
    pc \in {"idle", "returned"} =>
        /\ series.DataType = "float" => series.String = <<>>
        /\ series.DataType = "string" => series.Float = <<>>

---------------------------------------------------------------------------
(* Replace and ReplaceWholeWord: properties *)

\* the call in progress, or the last call, is a Replace or a ReplaceWholeWord
\* of a non-empty textual Series
InReplace ==
    /\ op \in ReplaceOps
    /\ pc \in {"running", "returned"}
    /\ entry.DataType = "string" /\ GetLength(entry) > 0

\* the rewrite of the single text s by the call
Rewrite(s) == IF op = "Replace" THEN ReplaceAll(s, old, new) ELSE ReplaceAllString(s, old, new)

\* the search term of the call matches in s
HasMatch(s) ==
    IF op = "Replace"
    THEN \E k \in 0 .. Len(s) : k + Len(old) <= Len(s) /\ SubSeq(s, k + 1, k + Len(old)) = old
    ELSE \E k \in 0 .. Len(s) : MatchAt(s, k, old)

\* C13: in Replace and ReplaceWholeWord of a non-empty textual Series, under
\* every interleaving of the goroutines, no element is written twice, every
\* write is that of one visit, the Series keeps its length, an element
\* already visited holds the rewrite of the entry element and one not yet
\* visited holds the entry element; at the return every element has been
\* visited, and when the search term matches in no element the Series is the
\* one of the entry.
C13_EachElementRewrittenOnce ==
    InReplace =>
        /\ Len(visits) = Len(entry.String)
        /\ \A k \in DOMAIN visits : visits[k] <= 1
        /\ seriesWrites = Cardinality({k \in DOMAIN visits : visits[k] = 1})
        /\ series.DataType = "string" /\ series.Float = <<>>
        /\ Len(series.String) = Len(entry.String)
        /\ \A k \in DOMAIN visits :
               series.String[k] = IF visits[k] = 1 THEN Rewrite(entry.String[k])
                                  ELSE entry.String[k]
        /\ pc = "returned" => \A k \in DOMAIN visits : visits[k] = 1
        /\ (\A k \in DOMAIN visits : ~HasMatch(entry.String[k])) => series = entry

\* a ReplaceWholeWord with several goroutines has returned: it rewrote x.x
\* and left xy, which holds the search term x inside a word, as it was
C13_Witness ==
    /\ InReplace /\ pc = "returned" /\ op = "ReplaceWholeWord"
    /\ numCPU >= 2
    /\ old = <<"x">>
    /\ \E k \in DOMAIN visits : entry.String[k] = <<"x", "y">> /\ series.String[k] = <<"x", "y">>
    /\ \E k \in DOMAIN visits : entry.String[k] = <<"x", ".", "x">> /\ series.String[k] = new \o <<".">> \o new

---------------------------------------------------------------------------
(* arrayCalculatePercentile: properties *)

PercentileDone == op = "arrayCalculatePercentile" /\ pc \in {"returned", "panicked"}

\* C14: arrayCalculatePercentile of the sorted sequence [10, 20, 30, 40]
\* with percentile 50 returns 25.
C14_PercentileExample ==
    (/\ PercentileDone
     /\ nums = <<Rat(10), Rat(20), Rat(30), Rat(40)>>
     /\ percentile = 50) =>
        /\ pc = "returned"
        /\ ret = <<Rat(25)>>

\* C19: for a non-empty sorted nums and 0 <= percentile <= 100,
\* arrayCalculatePercentile reads only positions in [0, N) and returns a
\* value: when upper = floor(percentile / 100 * N) + 1 is out of bounds,
\* lower = floor(percentile / 100 * N) is a valid index and nums[lower] is returned.
C19_PercentileStaysInBounds ==
    (/\ PercentileDone
     /\ Len(nums) > 0 /\ Sorted(nums)
     /\ 0 <= percentile /\ percentile <= 100) =>
        LET lower == (percentile * Len(nums)) \div 100
        IN  /\ pc = "returned"
            /\ (lower + 1 >= Len(nums)) =>
                   /\ lower < Len(nums)
                   /\ ret = <<At(nums, lower)>>

---------------------------------------------------------------------------
(* Goroutines and chunks: properties *)

\* C15: a call starts a goroutine for exactly the i in 0 .. P-1 with
\* i * chunkSize < L (none when L = 0), and no goroutine gets a chunk with
\* start >= L, start > end or end > L.
C15_NoGoroutineOnEmptyChunk ==
    (pc = "running" /\ StartedGoroutines) =>
        LET length == GetLength(entry)
        IN  /\ Len(wdone) =
                   Cardinality({i \in Goroutines : ChunkStart(i, length, numCPU) < length})
            /\ \A i \in 0 .. (Len(wdone) - 1) :
                   /\ ChunkStart(i, length, numCPU) < length
                   /\ ChunkStart(i, length, numCPU) <= ChunkEnd(i, length, numCPU)
                   /\ ChunkEnd(i, length, numCPU) <= length

\* goroutine i of ConvertStringToFloat has an iteration ahead, which begins
\* with the read of firstErr
ReadsFirstErr(i) ==
    /\ ~At(wdone, i)
    /\ ~At(wexit, i)
    /\ At(wj, i) < ChunkEnd(i, Len(entry.String), numCPU)

\* C16: while the goroutines of ConvertStringToFloat run, firstErr is not
\* assigned by one goroutine while another goroutine still reads it: a
\* failure stays with the goroutine that met it until every goroutine is done.
C16_FirstErrStaysPrivate ==
    (op = "ConvertStringToFloat" /\ pc = "running" /\ firstErr # NoErr) =>
        \A i \in Goroutines :
            ReadsFirstErr(i) => firstErr.at \in ChunkIndexes(i, Len(entry.String), numCPU)

\* C17: under fair scheduling every call that started its goroutines
\* returns; in a filter the channel never holds more lists than its
\* capacity, it is closed only after every goroutine has sent, and once
\* closed it stays closed until the return.
C17_EveryCallReturns ==
    /\ (pc = "running") ~> (pc = "returned")
    /\ [](Len(ch) <= numCPU)
    /\ []((pc = "running" /\ op \in FilterOps /\ closed) => \A i \in Goroutines : At(wdone, i))
    /\ [][(pc = "running" /\ closed) => closed']_vars

\* a filter with several goroutines has returned two or more indexes after
\* the channel was closed and drained
C17_Witness ==
    /\ pc = "returned" /\ op \in FilterOps
    /\ numCPU >= 2
    /\ closed /\ ch = <<>>
    /\ Len(ret) >= 2

---------------------------------------------------------------------------
(* ConvertFloatToString and repeated conversion: properties *)

\* the call in progress, or the last call, is ConvertFloatToString on a numeric Series
InFloatToString ==
    /\ op = "ConvertFloatToString"
    /\ pc \in {"running", "returned"}
    /\ entry.DataType = "float"

\* t is the shortest decimal text of the non-negative value v: it reads back
\* as v and has no leading zero, no trailing zero after a point and no
\* trailing point
ShortestText(t, v) ==
    /\ ParseOK(t)
    /\ ParseFloat(t) = v
    /\ t[Len(t)] # "."
    /\ (\E k \in 1 .. Len(t) : t[k] = ".") => t[Len(t)] # "0"
    /\ (Len(t) >= 2 /\ t[1] = "0") => t[2] = "."
    /\ t[1] # "."

\* C18: ConvertFloatToString on a numeric Series of length L meets no error;
\* while its goroutines run they write a buffer of length L that is not the
\* Series' textual sequence and no position is written twice; at the return
\* every position has been written once and the Series' textual sequence is
\* that buffer, whose element i is the shortest text of numeric element i.
C18_FloatToStringInstallsTexts ==
    InFloatToString =>
        /\ firstErr = NoErr
        /\ Len(stringArray) = Len(entry.Float)
        /\ Len(visits) = Len(entry.Float)
        /\ \A k \in DOMAIN visits : visits[k] <= 1
        /\ pc = "running" => series = entry
        /\ pc = "returned" =>
               /\ \A k \in DOMAIN visits : visits[k] = 1
               /\ series.String = stringArray
               /\ Len(series.String) = Len(entry.Float)
               /\ \A k \in 1 .. Len(entry.Float) : ShortestText(series.String[k], entry.Float[k])

\* a ConvertFloatToString with several goroutines has returned the texts of
\* a whole number and of a fraction
C18_Witness ==
    /\ InFloatToString /\ pc = "returned"
    /\ numCPU >= 2
    /\ \E k \in 1 .. Len(series.String) : series.String[k] = <<"2">>
    /\ \E k \in 1 .. Len(series.String) : series.String[k] = <<"1", ".", "5">>

\* C20: a ConvertStringToFloat that follows a ConvertStringToFloat of a
\* textual Series whose elements all parse leaves the Series as it found it:
\* the numeric sequence is still the parsed values of the first call's entry.
C20_SecondConversionIsNoOp ==
    (/\ op = "ConvertStringToFloat" /\ pc = "returned"
     /\ prev.op = "ConvertStringToFloat"
     /\ prev.entry.DataType = "string"
     /\ AllParse(prev.entry.String)) =>
        /\ series = entry
        /\ series.Float = [k \in 1 .. Len(prev.entry.String) |-> ParseFloat(prev.entry.String[k])]

====
